---- MODULE Spec2Model ----
(***************************************************************************)
(* Verification model of the simulation harness: the event-dependency      *)
(* scheduler (spec sections 3-5), the flight apps                          *)
(* (apps/flight_customer_service.py), GmailApp (apps/gmail.py), the        *)
(* gmail_browser scenario and BrowserAgent.                                *)
(***************************************************************************)
EXTENDS Integers, Sequences, FiniteSets, TLC

VARIABLES
    \* ---- scheduler run ----
    graph,      \* the finalized event graph and its scenario duration
    mode,       \* "virtual" | "real" clock
    policy,     \* "skip" (propagate-skip) | "attempt" (attempt-anyway)
    status,     \* event id -> lifecycle state
    result,     \* event id -> captured result / error kind / skip reason
    readyAt,    \* event id -> clock value when it became Ready (-1: not yet)
    doneAt,     \* event id -> clock value when it became terminal (-1: not yet)
    clock,      \* simulation time, seconds since start_time
    phase,      \* "building" | "running" | "draining" | "done"
    build,      \* the last depends_on call of graph building and its outcome
    validated,  \* how many times the scenario's validate(env) was invoked
    \* ---- flight apps ----
    heap,       \* address -> content of a Python list object
    nextAddr,   \* next unused address
    client,     \* FlightClientApp attributes (baggage_info is an address)
    clientSnap, \* the dict a get_state() call returned (None before the first)
    clientSnapContent, \* what that dict held when it was returned
    clientOp,   \* the last operation performed on the client app
    cs,         \* FlightCustomerServiceApp attributes
    csOp,       \* the last operation performed on the customer-service app
    validation, \* what the flight scenario's validate(env) returned (None before)
    csRet,      \* arguments and return value of the last customer-service lookup
    oracleRun,  \* how many of the flight scenario's events have been executed
    \* ---- GmailApp, its scenario, the browser and BrowserAgent ----
    gscenario,  \* which scenario builds the GmailApp
    gphase,     \* "new" | "initialized" | "ended"
    gw,         \* the GmailApp, its simulation and the browser it uses
    gmailSnap,  \* the dict a GmailApp.get_state() call returned
    gOp,        \* the last operation performed on the GmailApp
    agent,      \* BrowserAgent attributes
    calls,      \* tool calls made on the GmailApp by concurrent callers
    page,       \* what the browser shows: current URL, open tabs, scroll position
    toolRet     \* the last GmailApp tool call: its arguments and how it ended

harnessVars == <<build, validated>>
schedVars == <<graph, mode, policy, status, result, readyAt, doneAt, clock, phase, harnessVars>>
flightVars ==
    <<heap, nextAddr, client, clientSnap, clientSnapContent, clientOp, cs, csOp, validation,
      csRet, oracleRun>>

gmailVars == <<gscenario, gphase, gw, gmailSnap, gOp, agent, calls, page, toolRet>>

vars == <<schedVars, harnessVars, flightVars, gmailVars>>

(***************************************************************************)
(* Bounds of the model.                                                    *)
(***************************************************************************)
NumEvents == 3          \* events of a generated graph
MaxDelay == 1           \* largest delay of a generated graph's events
GenericDuration == 4    \* duration budget of a generated graph
AgentTimeout == 2       \* bounded wait for an AgentAction's external result
MaxAddr == 5            \* list objects allocated in one run
MaxBags == 2            \* length of a baggage_info list
MaxCalls == 3           \* spawns / closes of one GmailApp in one run
MaxSteps == 2           \* BrowserAgent steps in one run
NumCallers == 2         \* threads calling GmailApp tools at the same time

StartTime == 0

(***************************************************************************)
(* Capability registry: the read/write classification each tool is         *)
(* registered with (@event_registered(operation_type=...)).                *)
(***************************************************************************)
GmailReadTools ==
    {"search", "wait", "scroll", "find_text", "screenshot",
     "dropdown_options", "read_file"}

GmailWriteTools ==
    {"navigate", "go_back", "click", "input", "send_keys", "switch_tab",
     "close_tab", "select_dropdown", "write_file", "replace_file", "evaluate"}

FlightClientTools ==
    {"get_membership_info", "say_hi_to_customer_service", "get_booking_info",
     "check_medical_info", "get_baggage_info"}

FlightCustomerServiceTools ==
    {"get_greeting_message_to_client", "get_client_membership_info",
     "get_client_flight_booking_info", "get_client_baggage_policy_info",
     "get_special_baggage_policy_info", "update_user_booking"}

\* variant, not the code: update_user_booking registered as a READ capability
OperationTypeUpdateRead(app, tool) ==
    IF app = "GmailApp" /\ tool \in GmailReadTools THEN "READ"
    ELSE IF tool = "update_user_booking" THEN "READ"
    ELSE "WRITE"

OperationType(app, tool) ==
    IF app = "GmailApp" /\ tool \in GmailReadTools THEN "READ" ELSE "WRITE"

(***************************************************************************)
(* Event graphs.  An event is [kind, app, tool, deps, delay]; a graph is   *)
(* [n, ev, duration].  depends_on(None, d) gives deps = {}.                *)
(***************************************************************************)
Event(k, a, t, ds, dl) == [kind |-> k, app |-> a, tool |-> t, deps |-> ds, delay |-> dl]

\* variant, not the code: oracle1 built with depends_on(None, ...) instead of depends_on(event1, ...)
FlightEventsOracle1Root ==
    <<Event("UserAction", "AgentUserInterface", "send_message_to_agent", {}, 1),
      Event("OracleAction", "FlightClientApp", "say_hi_to_customer_service", {}, 1),
      Event("OracleAction", "FlightCustomerServiceApp", "get_greeting_message_to_client", {2}, 1)>>

\* ScenarioFlightCustomerServiceWithMedicalBag.build_events_flow
FlightEvents ==
    <<Event("UserAction", "AgentUserInterface", "send_message_to_agent", {}, 1),
      Event("OracleAction", "FlightClientApp", "say_hi_to_customer_service", {1}, 1),
      Event("OracleAction", "FlightCustomerServiceApp", "get_greeting_message_to_client", {2}, 1)>>

FlightDuration == 2

FlightGraph == [name |-> "flight", n |-> 3, ev |-> FlightEvents, duration |-> FlightDuration]

\* variant, not the code: oracle1 scheduled 1s after event1 instead of 2s
EaBenchEventsDelay1 ==
    <<Event("UserAction", "AgentUserInterface", "send_message_to_agent", {}, 2),
      Event("OracleAction", "AgentUserInterface", "send_message_to_user", {1}, 1)>>

\* GmailTestScenario.build_events_flow
EaBenchEvents ==
    <<Event("UserAction", "AgentUserInterface", "send_message_to_agent", {}, 2),
      Event("OracleAction", "AgentUserInterface", "send_message_to_user", {1}, 2)>>

EaBenchDuration == 30

EaBenchGraph == [name |-> "ea_bench", n |-> 2, ev |-> EaBenchEvents, duration |-> EaBenchDuration]

\* GmailBrowserScenario.build_events_flow
GmailBrowserEvents ==
    <<Event("UserAction", "AgentUserInterface", "send_message_to_agent", {}, 2)>>

GmailBrowserDuration == 120

GmailBrowserGraph ==
    [name |-> "gmail_browser", n |-> 1, ev |-> GmailBrowserEvents,
     duration |-> GmailBrowserDuration]

ScenarioGraphs == {FlightGraph, EaBenchGraph, GmailBrowserGraph}

\* Generated graphs: every dependency DAG over NumEvents events (an event can
\* only depend on events captured before it), a uniform delay, and one of
\* three target profiles.
Shapes == {d \in [1..NumEvents -> SUBSET (1..NumEvents)] :
              \A i \in 1..NumEvents : \A j \in d[i] : j < i}

ProfileEvent(p, i, ds, dl) ==
    CASE p = "writes" ->
            Event("OracleAction", "FlightCustomerServiceApp", "update_user_booking", ds, dl)
      [] p = "reads" ->
            Event("UserAction", "GmailApp", IF i % 2 = 1 THEN "scroll" ELSE "wait", ds, dl)
      [] OTHER ->
            IF i % 3 = 1 THEN Event("UserAction", "GmailApp", "navigate", ds, dl)
            ELSE IF i % 3 = 2 THEN Event("AgentAction", "GmailApp", "find_text", ds, dl)
            ELSE Event("OracleAction", "GmailApp", "click", ds, dl)

Profiles == {"writes", "reads", "mixed"}

GeneratedGraphs ==
    {[name |-> p, n |-> NumEvents,
      ev |-> [i \in 1..NumEvents |-> ProfileEvent(p, i, d[i], dl)],
      duration |-> GenericDuration] :
        p \in Profiles, d \in Shapes, dl \in 0..MaxDelay}

Graphs == ScenarioGraphs \cup GeneratedGraphs

(***************************************************************************)
(* Scheduler (spec 4.2).                                                   *)
(***************************************************************************)
Ev == 1..graph.n
E(e) == graph.ev[e]
Deps(e) == E(e).deps
Terminal == {"Completed", "Failed", "Skipped"}

SetMax(S) == CHOOSE x \in S : \A y \in S : y <= x
SetMin(S) == CHOOSE x \in S : \A y \in S : x <= y

RECURSIVE Ancestors(_)
Ancestors(e) == Deps(e) \cup UNION {Ancestors(d) : d \in Deps(e)}

\* every dependency is resolved in a way that lets e proceed
DepsOk(e) ==
    \A d \in Deps(e) :
        \/ status[d] = "Completed"
        \/ policy = "attempt" /\ status[d] \in Terminal

\* propagate-skip: a dependency failed or was skipped
DepsBroken(e) ==
    policy = "skip" /\ \E d \in Deps(e) : status[d] \in {"Failed", "Skipped"}

\* max(dependency completion times) + delay, from simulation start for a root
EligibleAt(e) == SetMax({doneAt[d] : d \in Deps(e)} \cup {StartTime}) + E(e).delay

Exceeded == clock > StartTime + graph.duration

AgentWaiting(e) == status[e] = "Ready" /\ E(e).kind = "AgentAction"

\* a transition that must be taken before time passes
Urgent(e) ==
    \/ status[e] = "Pending" /\ DepsOk(e) /\ clock >= EligibleAt(e)
    \/ status[e] = "Pending" /\ DepsBroken(e)
    \/ AgentWaiting(e) /\ clock >= readyAt[e] + AgentTimeout

MakeReady(e) ==
    /\ phase = "running" /\ ~Exceeded
    /\ status[e] = "Pending"
    /\ DepsOk(e)
    /\ clock >= EligibleAt(e)
    /\ status' = [status EXCEPT ![e] = "Ready"]
    /\ readyAt' = [readyAt EXCEPT ![e] = clock]
    /\ UNCHANGED <<graph, mode, policy, result, doneAt, clock, phase, harnessVars, flightVars, gmailVars>>

SkipEvent(e) ==
    /\ phase = "running" /\ ~Exceeded
    /\ status[e] = "Pending"
    /\ DepsBroken(e)
    /\ status' = [status EXCEPT ![e] = "Skipped"]
    /\ result' = [result EXCEPT ![e] = "DependencyFailed"]
    /\ doneAt' = [doneAt EXCEPT ![e] = clock]
    /\ UNCHANGED <<graph, mode, policy, readyAt, clock, phase, harnessVars, flightVars, gmailVars>>

\* single-writer / multi-reader discipline per App
MayRun(e) ==
    IF OperationType(E(e).app, E(e).tool) = "WRITE"
    THEN \A o \in Ev \ {e} : ~(status[o] = "Running" /\ E(o).app = E(e).app)
    ELSE \A o \in Ev \ {e} :
            ~(status[o] = "Running" /\ E(o).app = E(e).app
              /\ OperationType(E(o).app, E(o).tool) = "WRITE")

\* variant, not the code: the scheduler dispatches AgentAction events itself
DispatchAnyKind(e) ==
    /\ phase = "running" /\ ~Exceeded
    /\ status[e] = "Ready"
    /\ MayRun(e)
    /\ status' = [status EXCEPT ![e] = "Running"]
    /\ UNCHANGED <<graph, mode, policy, result, readyAt, doneAt, clock, phase, harnessVars, flightVars, gmailVars>>

Dispatch(e) ==
    /\ phase = "running" /\ ~Exceeded
    /\ status[e] = "Ready"
    /\ E(e).kind # "AgentAction"
    /\ MayRun(e)
    /\ status' = [status EXCEPT ![e] = "Running"]
    /\ UNCHANGED <<graph, mode, policy, result, readyAt, doneAt, clock, phase, harnessVars, flightVars, gmailVars>>

Complete(e) ==
    /\ phase \in {"running", "draining"}
    /\ status[e] = "Running"
    /\ status' = [status EXCEPT ![e] = "Completed"]
    /\ result' = [result EXCEPT ![e] = "ok"]
    /\ doneAt' = [doneAt EXCEPT ![e] = clock]
    /\ UNCHANGED <<graph, mode, policy, readyAt, clock, phase, harnessVars, flightVars, gmailVars>>

\* variant, not the code: a raising handler is recorded but the event is marked Completed
FailMarksCompleted(e) ==
    /\ phase \in {"running", "draining"}
    /\ status[e] = "Running"
    /\ status' = [status EXCEPT ![e] = "Completed"]
    /\ result' = [result EXCEPT ![e] = "CapabilityError"]
    /\ doneAt' = [doneAt EXCEPT ![e] = clock]
    /\ UNCHANGED <<graph, mode, policy, readyAt, clock, phase, harnessVars, flightVars, gmailVars>>

\* variant, not the code: a raising handler puts its event back to Ready for a retry
FailRetries(e) ==
    /\ phase \in {"running", "draining"}
    /\ status[e] = "Running"
    /\ status' = [status EXCEPT ![e] = "Ready"]
    /\ result' = [result EXCEPT ![e] = "CapabilityError"]
    /\ UNCHANGED <<graph, mode, policy, readyAt, doneAt, clock, phase, harnessVars, flightVars, gmailVars>>

\* the capability handler raised
Fail(e) ==
    /\ phase \in {"running", "draining"}
    /\ status[e] = "Running"
    /\ status' = [status EXCEPT ![e] = "Failed"]
    /\ result' = [result EXCEPT ![e] = "CapabilityError"]
    /\ doneAt' = [doneAt EXCEPT ![e] = clock]
    /\ UNCHANGED <<graph, mode, policy, readyAt, clock, phase, harnessVars, flightVars, gmailVars>>

AgentRespond(e) ==
    /\ phase = "running" /\ ~Exceeded
    /\ AgentWaiting(e)
    /\ clock < readyAt[e] + AgentTimeout
    /\ status' = [status EXCEPT ![e] = "Completed"]
    /\ result' = [result EXCEPT ![e] = "supplied"]
    /\ doneAt' = [doneAt EXCEPT ![e] = clock]
    /\ UNCHANGED <<graph, mode, policy, readyAt, clock, phase, harnessVars, flightVars, gmailVars>>

AgentTimesOut(e) ==
    /\ phase = "running" /\ ~Exceeded
    /\ AgentWaiting(e)
    /\ clock >= readyAt[e] + AgentTimeout
    /\ status' = [status EXCEPT ![e] = "Failed"]
    /\ result' = [result EXCEPT ![e] = "TimeoutError"]
    /\ doneAt' = [doneAt EXCEPT ![e] = clock]
    /\ UNCHANGED <<graph, mode, policy, readyAt, clock, phase, harnessVars, flightVars, gmailVars>>

\* real-time mode: one second passes
Tick ==
    /\ mode = "real"
    /\ phase \in {"running", "draining"}
    /\ ~Exceeded
    /\ \E e \in Ev : status[e] \notin Terminal
    /\ \A e \in Ev : ~Urgent(e)
    /\ clock' = clock + 1
    /\ UNCHANGED <<graph, mode, policy, status, result, readyAt, doneAt, phase, harnessVars, flightVars, gmailVars>>

Timers ==
    {EligibleAt(e) : e \in {x \in Ev : status[x] = "Pending" /\ DepsOk(x)}}
    \cup {readyAt[e] + AgentTimeout : e \in {x \in Ev : AgentWaiting(x)}}

\* virtual-time mode: jump to the next pending deadline, no wall-clock wait
Advance ==
    /\ mode = "virtual"
    /\ phase = "running"
    /\ ~Exceeded
    /\ \A e \in Ev : ~Urgent(e)
    /\ \A e \in Ev : status[e] # "Running"
    /\ \A e \in Ev : status[e] = "Ready" => E(e).kind = "AgentAction"
    /\ Timers # {}
    /\ SetMin(Timers) > clock
    /\ clock' = IF SetMin(Timers) > StartTime + graph.duration
                THEN StartTime + graph.duration + 1
                ELSE SetMin(Timers)
    /\ UNCHANGED <<graph, mode, policy, status, result, readyAt, doneAt, phase, harnessVars, flightVars, gmailVars>>

\* variant, not the code: on an exceeded budget only Pending events are skipped
DeadlineSkipsPendingOnly ==
    /\ phase = "running"
    /\ Exceeded
    /\ status' = [e \in Ev |-> IF status[e] = "Pending" THEN "Skipped" ELSE status[e]]
    /\ result' = [e \in Ev |-> IF status[e] = "Pending"
                                 THEN "DeadlineExceeded" ELSE result[e]]
    /\ doneAt' = [e \in Ev |-> IF status[e] = "Pending" THEN clock ELSE doneAt[e]]
    /\ phase' = "draining"
    /\ UNCHANGED <<graph, mode, policy, readyAt, clock, harnessVars, flightVars, gmailVars>>

\* the duration budget is exhausted: stop dispatching, skip what has not started
DeadlineExceeded ==
    /\ phase = "running"
    /\ Exceeded
    /\ status' = [e \in Ev |-> IF status[e] \in {"Pending", "Ready"}
                                 THEN "Skipped" ELSE status[e]]
    /\ result' = [e \in Ev |-> IF status[e] \in {"Pending", "Ready"}
                                 THEN "DeadlineExceeded" ELSE result[e]]
    /\ doneAt' = [e \in Ev |-> IF status[e] \in {"Pending", "Ready"}
                                 THEN clock ELSE doneAt[e]]
    /\ phase' = "draining"
    /\ UNCHANGED <<graph, mode, policy, readyAt, clock, harnessVars, flightVars, gmailVars>>

Finish ==
    /\ phase \in {"running", "draining"}
    /\ \A e \in Ev : status[e] \in Terminal
    /\ phase' = "done"
    /\ UNCHANGED <<graph, mode, policy, status, result, readyAt, doneAt, clock, harnessVars, flightVars, gmailVars>>

\* ---- graph building (capture mode) ----
NoCall == [event |-> 0, on |-> 0, error |-> "none"]

RECURSIVE Closure(_, _, _)
\* the events reachable from S along dependency edges, in at most k rounds
Closure(g, S, k) ==
    IF k = 0 THEN S
    ELSE Closure(g, S \cup UNION {g.ev[x].deps : x \in S}, k - 1)

\* everything event e depends on, directly or transitively
TransDeps(g, e) == Closure(g, g.ev[e].deps, g.n)

Acyclic(g) == \A e \in 1..g.n : e \notin TransDeps(g, e)

\* the edge "b depends on a" would close a cycle
ClosesCycle(g, b, a) == a = b \/ b \in TransDeps(g, a)

\* variant, not the code: only a self-dependency is rejected
DependsOnSelfCheckOnly(b, a) ==
    /\ phase = "building"
    /\ IF a = b
       THEN /\ build' = [event |-> b, on |-> a, error |-> "GraphCycleError"]
            /\ graph' = graph
       ELSE /\ build' = [event |-> b, on |-> a, error |-> "none"]
            /\ graph' = [graph EXCEPT !.ev[b].deps = @ \cup {a}]
    /\ UNCHANGED <<mode, policy, status, result, readyAt, doneAt, clock, phase,
                   validated, flightVars, gmailVars>>

\* b.depends_on(a): the edge is added, or the call fails with GraphCycleError
\* and the graph is left as it was
DependsOn(b, a) ==
    /\ phase = "building"
    /\ IF ClosesCycle(graph, b, a)
       THEN /\ build' = [event |-> b, on |-> a, error |-> "GraphCycleError"]
            /\ graph' = graph
       ELSE /\ build' = [event |-> b, on |-> a, error |-> "none"]
            /\ graph' = [graph EXCEPT !.ev[b].deps = @ \cup {a}]
    /\ UNCHANGED <<mode, policy, status, result, readyAt, doneAt, clock, phase,
                   validated, flightVars, gmailVars>>

\* the graph is finalized and handed to the scheduler
Finalize ==
    /\ phase = "building"
    /\ phase' = "running"
    /\ build' = NoCall
    /\ UNCHANGED <<graph, mode, policy, status, result, readyAt, doneAt, clock,
                   validated, flightVars, gmailVars>>

\* ---- validation ----
\* variant, not the code: validation starts as soon as dispatching has stopped
ValidateOnceDraining ==
    /\ phase \in {"draining", "done"}
    /\ validated = 0
    /\ validated' = validated + 1
    /\ UNCHANGED <<graph, mode, policy, status, result, readyAt, doneAt, clock, phase,
                   build, flightVars, gmailVars>>

\* the Validator invokes the scenario's validate(env) on the finished run
Validate ==
    /\ phase = "done"
    /\ validated = 0
    /\ validated' = validated + 1
    /\ UNCHANGED <<graph, mode, policy, status, result, readyAt, doneAt, clock, phase,
                   build, flightVars, gmailVars>>

SchedInit ==
    /\ graph \in Graphs
    /\ mode \in {"virtual", "real"}
    /\ policy \in {"skip", "attempt"}
    /\ status = [e \in 1..graph.n |-> "Pending"]
    /\ result = [e \in 1..graph.n |-> "none"]
    /\ readyAt = [e \in 1..graph.n |-> -1]
    /\ doneAt = [e \in 1..graph.n |-> -1]
    /\ clock = StartTime
    /\ phase = "running"
    /\ build = NoCall
    /\ validated = 0

SchedNext ==
    \/ \E e \in Ev : MakeReady(e)
    \/ \E e \in Ev : SkipEvent(e)
    \/ \E e \in Ev : Dispatch(e)
    \/ \E e \in Ev : Complete(e)
    \/ \E e \in Ev : Fail(e)
    \/ \E e \in Ev : AgentRespond(e)
    \/ \E e \in Ev : AgentTimesOut(e)
    \/ Tick
    \/ Advance
    \/ DeadlineExceeded
    \/ Finish
    \/ Validate

\* graph building followed by the run of the graph that was built
BuildInit ==
    /\ \E dl \in 0..MaxDelay :
          graph = [name |-> "built", n |-> NumEvents,
                   ev |-> [i \in 1..NumEvents |-> ProfileEvent("mixed", i, {}, dl)],
                   duration |-> GenericDuration]
    /\ mode \in {"virtual", "real"}
    /\ policy \in {"skip", "attempt"}
    /\ status = [e \in 1..NumEvents |-> "Pending"]
    /\ result = [e \in 1..NumEvents |-> "none"]
    /\ readyAt = [e \in 1..NumEvents |-> -1]
    /\ doneAt = [e \in 1..NumEvents |-> -1]
    /\ clock = StartTime
    /\ phase = "building"
    /\ build = NoCall
    /\ validated = 0

BuildNext ==
    \/ \E b \in Ev : \E a \in Ev : DependsOn(b, a)
    \/ Finalize
    \/ SchedNext


(***************************************************************************)
(* Flight apps (apps/flight_customer_service.py).  Python lists that are   *)
(* mutated in place live in `heap`; an attribute holding such a list holds *)
(* its address, so that two names for one list see each other's changes.   *)
(***************************************************************************)
\* Optional[...] values: None, or a one-element sequence holding the object
None == <<>>
Some(x) == <<x>>

BaggageInfo(t) == [bagage_type |-> t, baggage_checkin_type |-> "carry_on"]

MembershipMail == "loyalty_member_id is UA_member_123, and your loyalty_tier is GOLD"
BookingMail == "your flight is UA-2209, and your confirmation number is UA_confirm_123"
BookingMailIsIs == "your flight is is UA2209, and your confirmation number is UA_confirm_123"

\* re.search(r"loyalty_member_id is (\w+).*loyalty_tier is (\w+)", content)
MembershipMatch(content) == content = MembershipMail

\* re.search(r"flight is is (\w+).*confirmation number is (\w+)", content)
BookingMatch(content) == content = BookingMailIsIs

\* FlightClientApp.__post_init__ / reset: the attributes, with a fresh empty list
ClientFresh(addr) ==
    [air_line |-> "Unity Air", bookings |-> None, user_membership_info |-> None,
     user_info |-> "UserInformation()", medical_docs |-> 0, emails |-> <<>>,
     baggage_info |-> addr]

\* what a state dict holds: every attribute by value, lists dereferenced
Content(d) == [d EXCEPT !.baggage_info = heap[d.baggage_info]]

\* the scenario populates the app by assigning attributes
ClientPopulate(mails, docs) ==
    /\ clientOp = "init"
    /\ nextAddr <= MaxAddr
    /\ heap' = [heap EXCEPT ![nextAddr] = <<"NORMAL_BAG">>]
    /\ nextAddr' = nextAddr + 1
    /\ client' = [client EXCEPT !.emails = mails, !.medical_docs = docs,
                                !.baggage_info = nextAddr]
    /\ clientOp' = "populate"
    /\ UNCHANGED <<clientSnap, clientSnapContent, cs, csOp, validation, csRet, oracleRun, schedVars, gmailVars>>

ClientReset ==
    /\ nextAddr <= MaxAddr
    /\ heap' = [heap EXCEPT ![nextAddr] = <<>>]
    /\ nextAddr' = nextAddr + 1
    /\ client' = ClientFresh(nextAddr)
    /\ clientOp' = "reset"
    /\ UNCHANGED <<clientSnap, clientSnapContent, cs, csOp, validation, csRet, oracleRun, schedVars, gmailVars>>

\* the dict holds the attributes themselves: no copy is made
ClientStateDict ==
    [bookings |-> client.bookings, user_membership_info |-> client.user_membership_info,
     user_info |-> client.user_info, medical_docs |-> client.medical_docs,
     emails |-> client.emails, air_line |-> client.air_line,
     baggage_info |-> client.baggage_info]

ClientGetState ==
    /\ clientSnap' = Some(ClientStateDict)
    /\ clientSnapContent' = Some(Content(ClientStateDict))
    /\ clientOp' = "get_state"
    /\ UNCHANGED <<heap, nextAddr, client, cs, csOp, validation, csRet, oracleRun, schedVars, gmailVars>>

\* FlightClientApp.load_state: "emails" is not read back
ClientLoaded(d) ==
    [client EXCEPT !.bookings = d.bookings,
                   !.user_membership_info = d.user_membership_info,
                   !.user_info = d.user_info,
                   !.medical_docs = d.medical_docs,
                   !.air_line = d.air_line,
                   !.baggage_info = d.baggage_info]

ClientLoadState ==
    /\ clientSnap # None
    /\ client' = ClientLoaded(clientSnap[1])
    /\ clientOp' = "load_state"
    /\ UNCHANGED <<heap, nextAddr, clientSnap, clientSnapContent, cs, csOp, validation, csRet, oracleRun, schedVars, gmailVars>>

\* appends to the list in place when the medical folder holds a document
ClientCheckMedicalInfo ==
    /\ Len(heap[client.baggage_info]) < MaxBags
    /\ heap' = IF client.medical_docs > 0
               THEN [heap EXCEPT ![client.baggage_info] =
                        Append(@, BaggageInfo("medical_bag"))]
               ELSE heap
    /\ clientOp' = "check_medical_info"
    /\ UNCHANGED <<nextAddr, client, clientSnap, clientSnapContent, cs, csOp, validation, csRet, oracleRun, schedVars, gmailVars>>

MembershipFromEmail(c, i) ==
    Some([email |-> "alex.sharma@gmail.com", loyalty_member_id |-> "UA_member_123",
          loyalty_tier |-> "GOLD"])

RECURSIVE MembershipScan(_, _, _)
\* get_membership_info_from_email: the last matching email wins
MembershipScan(mails, i, cur) ==
    IF i > Len(mails) THEN cur
    ELSE MembershipScan(mails, i + 1,
            IF MembershipMatch(mails[i]) THEN MembershipFromEmail(mails, i) ELSE cur)

ClientGetMembershipInfo ==
    /\ client' = IF client.user_membership_info # None THEN client
                 ELSE [client EXCEPT !.user_membership_info =
                          MembershipScan(client.emails, 1, client.user_membership_info)]
    /\ clientOp' = "get_membership_info"
    /\ UNCHANGED <<heap, nextAddr, clientSnap, clientSnapContent, cs, csOp, validation, csRet, oracleRun, schedVars, gmailVars>>

BookingFromEmail ==
    Some([confirmation_number |-> "UA_confirm_123", flight_number |-> "UA2209",
          passenger_name |-> ""])

RECURSIVE BookingScan(_, _, _)
\* get_booking_info_from_email: the last matching email wins
BookingScan(mails, i, cur) ==
    IF i > Len(mails) THEN cur
    ELSE BookingScan(mails, i + 1,
            IF BookingMatch(mails[i]) THEN BookingFromEmail ELSE cur)

ClientGetBookingInfo ==
    /\ client' = IF client.bookings # None THEN client
                 ELSE [client EXCEPT !.bookings =
                          BookingScan(client.emails, 1, client.bookings)]
    /\ clientOp' = "get_booking_info"
    /\ UNCHANGED <<heap, nextAddr, clientSnap, clientSnapContent, cs, csOp, validation, csRet, oracleRun, schedVars, gmailVars>>

\* ---- FlightCustomerServiceApp ----
CsFresh ==
    [air_line |-> "Unity Air", user_info |-> "UserInformation()",
     client_booking_info |-> <<>>, client_membership_info |-> <<>>,
     client_user_info |-> <<>>, regular_bag_policies |-> <<>>,
     special_bag_policies |-> <<>>]

Booking(c, tier, ticket, addr) ==
    [confirmation_number |-> c, loyalty_tier |-> tier, ticket_type |-> ticket,
     baggage_info |-> addr]

Membership(id, tier) == [loyalty_member_id |-> id, loyalty_tier |-> tier]
RegularPolicy(ticket, tier, free) ==
    [ticket_type |-> ticket, loyalty_tier |-> tier, free_checked_bag_number |-> free]
SpecialPolicy(t, carry, checkin, fee) ==
    [bagage_type |-> t, allow_to_carry_on |-> carry, allow_to_check_in |-> checkin,
     require_additional_fee |-> fee]

ConfirmationNumbers == {"UA_confirm_123", "UA_confirm_456"}

\* the scenario populates the customer-service app by assigning attributes;
\* each booking is built with baggage_info=[]
CsPopulate(c1, c2) ==
    /\ csOp = "init"
    /\ nextAddr + 1 <= MaxAddr
    /\ heap' = [heap EXCEPT ![nextAddr] = <<>>, ![nextAddr + 1] = <<>>]
    /\ nextAddr' = nextAddr + 2
    /\ cs' = [cs EXCEPT
            !.client_booking_info =
                <<Booking(c1, "GOLD", "BUSINESS", nextAddr),
                  Booking(c2, "BRONZE", "FIRST_CLASS", nextAddr + 1)>>,
            !.client_membership_info =
                <<Membership("UA_member_123", "GOLD"), Membership("UA_member_456", "NORMAL")>>,
            !.regular_bag_policies =
                <<RegularPolicy("BUSINESS", "GOLD", 1), RegularPolicy("ECONOMY", "GOLD", 0),
                  RegularPolicy("ECONOMY", "NORMAL", 0)>>,
            !.special_bag_policies =
                <<SpecialPolicy("medical_bag", TRUE, TRUE, FALSE),
                  SpecialPolicy("sports_equipment", FALSE, TRUE, TRUE)>>]
    /\ csOp' = "populate"
    /\ UNCHANGED <<client, clientSnap, clientSnapContent, clientOp, validation, csRet, oracleRun, schedVars, gmailVars>>

CsReset ==
    /\ cs' = CsFresh
    /\ csOp' = "reset"
    /\ UNCHANGED <<heap, nextAddr, client, clientSnap, clientSnapContent, clientOp, validation, csRet, oracleRun, schedVars, gmailVars>>

NewBaggageInfo(bags) == [i \in 1..Len(bags) |-> BaggageInfo(bags[i])]

RECURSIVE ExtendFirstMatch(_, _, _, _, _)
\* variant, not the code: the loop stops at the first matching booking
ExtendFirstMatch(h, bookings, i, c, new) ==
    IF i > Len(bookings) THEN h
    ELSE IF bookings[i].confirmation_number = c
         THEN [h EXCEPT ![bookings[i].baggage_info] = @ \o new]
         ELSE ExtendFirstMatch(h, bookings, i + 1, c, new)

RECURSIVE ExtendMatching(_, _, _, _, _)
\* the loop of update_user_booking: extend, in place, the baggage list of every
\* booking whose confirmation number matches
ExtendMatching(h, bookings, i, c, new) ==
    IF i > Len(bookings) THEN h
    ELSE ExtendMatching(
            IF bookings[i].confirmation_number = c
            THEN [h EXCEPT ![bookings[i].baggage_info] = @ \o new] ELSE h,
            bookings, i + 1, c, new)

BagInputs == {<<>>, <<"medical_bag">>, <<"sports_equipment", "medical_bag">>}

CsUpdateUserBooking(c, bags) ==
    /\ \A i \in 1..Len(cs.client_booking_info) :
            Len(heap[cs.client_booking_info[i].baggage_info]) + Len(bags) <= MaxBags
    /\ heap' = ExtendMatching(heap, cs.client_booking_info, 1, c, NewBaggageInfo(bags))
    /\ csOp' = "update_user_booking"
    /\ UNCHANGED <<nextAddr, client, clientSnap, clientSnapContent, clientOp, cs, validation, csRet, oracleRun, schedVars, gmailVars>>

\* FlightCustomerServiceApp.get_state reads self.bookings, an attribute that
\* neither __post_init__ nor reset creates: the call raises AttributeError
CsGetState ==
    /\ csOp' = "get_state raised AttributeError"
    /\ UNCHANGED <<heap, nextAddr, client, clientSnap, clientSnapContent, clientOp, cs, validation, csRet, oracleRun, schedVars, gmailVars>>

\* ---- the lookups of FlightCustomerServiceApp ----
\* An Enum member and its .value string are different Python objects and do not
\* compare equal: the member is written "LoyaltyTier.NORMAL", its value "NORMAL".
DefaultRegularPolicy == RegularPolicy("TicketType.ECONOMY", "LoyaltyTier.NORMAL", 0)

RECURSIVE MembershipLookup(_, _, _)
\* get_client_membership_info: the first membership with that id, else None
MembershipLookup(members, i, id) ==
    IF i > Len(members) THEN None
    ELSE IF members[i].loyalty_member_id = id THEN Some(members[i])
    ELSE MembershipLookup(members, i + 1, id)

RECURSIVE BookingLookup(_, _, _)
\* get_client_flight_booking_info: the first booking with that number, else None
BookingLookup(bookings, i, c) ==
    IF i > Len(bookings) THEN None
    ELSE IF bookings[i].confirmation_number = c THEN Some(bookings[i])
    ELSE BookingLookup(bookings, i + 1, c)

RECURSIVE PolicyLoop(_, _, _, _)
\* the loop over regular_bag_policies; RegularBaggagePolicy() when it ends
PolicyLoop(policies, i, tier, ticket) ==
    IF i > Len(policies) THEN DefaultRegularPolicy
    ELSE IF policies[i].loyalty_tier = tier /\ policies[i].ticket_type = ticket
         THEN policies[i]
    ELSE PolicyLoop(policies, i + 1, tier, ticket)

\* get_client_baggage_policy_info(client_loyalty_member_id, client_confirmation_number)
GetClientBaggagePolicyInfo(id, c) ==
    LET m == MembershipLookup(cs.client_membership_info, 1, id)
        b == BookingLookup(cs.client_booking_info, 1, c)
        tier == IF m # None THEN m[1].loyalty_tier ELSE "LoyaltyTier.NORMAL"
        ticket == IF b # None THEN b[1].ticket_type ELSE "TicketType.ECONOMY"
    IN  PolicyLoop(cs.regular_bag_policies, 1, tier, ticket)

MemberIds == {"UA_member_123", "UA_member_456", "UA_member_000"}
LookupNumbers == ConfirmationNumbers \cup {"UA_confirm_000"}

CsGetClientBaggagePolicyInfo(id, c) ==
    /\ csRet' = Some([member |-> id, confirmation |-> c,
                      policy |-> GetClientBaggagePolicyInfo(id, c)])
    /\ csOp' = "get_client_baggage_policy_info"
    /\ UNCHANGED <<heap, nextAddr, client, clientSnap, clientSnapContent, clientOp, cs,
                   validation, oracleRun, schedVars, gmailVars>>

\* ---- ScenarioFlightCustomerServiceWithMedicalBag.validate ----
RECURSIVE BagScan(_, _)
\* the inner loop: is there a bag_info whose bagage_type is MEDICAL_BAG
BagScan(bags, j) ==
    IF j > Len(bags) THEN FALSE
    ELSE IF bags[j].bagage_type = "medical_bag" THEN TRUE
    ELSE BagScan(bags, j + 1)

RECURSIVE BookingLoopAnyNumber(_, _, _)
\* variant, not the code: the confirmation number is not compared
BookingLoopAnyNumber(h, bookings, i) ==
    IF i > Len(bookings) THEN FALSE
    ELSE IF BagScan(h[bookings[i].baggage_info], 1) THEN TRUE
    ELSE BookingLoopAnyNumber(h, bookings, i + 1)

RECURSIVE BookingLoop(_, _, _)
\* the outer loop over customer_service_app.client_booking_info
BookingLoop(h, bookings, i) ==
    IF i > Len(bookings) THEN FALSE
    ELSE IF bookings[i].confirmation_number = "UA_confirm_123"
            /\ BagScan(h[bookings[i].baggage_info], 1) THEN TRUE
    ELSE BookingLoop(h, bookings, i + 1)

\* ScenarioValidationResult(success, exception); propagated records whether an
\* exception left validate
ValidationResult(appFound) ==
    IF appFound
    THEN [success |-> BookingLoop(heap, cs.client_booking_info, 1),
          exception |-> "none", propagated |-> FALSE]
    ELSE [success |-> FALSE, exception |-> "KeyError", propagated |-> FALSE]

\* validate(env): env.get_app either finds the app or raises
ScenarioValidate(appFound) ==
    /\ validation' = Some(ValidationResult(appFound))
    /\ csOp' = IF appFound THEN "validate" ELSE "validate, get_app raised"
    /\ UNCHANGED <<heap, nextAddr, client, clientSnap, clientSnapContent, clientOp, cs,
                   csRet, oracleRun, schedVars, gmailVars>>

\* ---- the flight scenario run in oracle mode: its events in dependency order ----
\* event1: agui.send_message_to_agent("Please play the role as Alex Sharma")
RunEvent1 ==
    /\ csOp # "init"
    /\ oracleRun = 0
    /\ oracleRun' = 1
    /\ UNCHANGED <<heap, nextAddr, client, clientSnap, clientSnapContent, clientOp, cs, csOp,
                   validation, csRet, schedVars, gmailVars>>

\* oracle1: client_app.say_hi_to_customer_service() returns its greeting
RunOracle1 ==
    /\ oracleRun = 1
    /\ oracleRun' = 2
    /\ clientOp' = "say_hi_to_customer_service"
    /\ UNCHANGED <<heap, nextAddr, client, clientSnap, clientSnapContent, cs, csOp,
                   validation, csRet, schedVars, gmailVars>>

\* oracle2: customer_service_app.get_greeting_message_to_client() returns its
\* greeting
RunOracle2 ==
    /\ oracleRun = 2
    /\ oracleRun' = 3
    /\ csOp' = "get_greeting_message_to_client"
    /\ UNCHANGED <<heap, nextAddr, client, clientSnap, clientSnapContent, clientOp, cs,
                   validation, csRet, schedVars, gmailVars>>

FlightInit ==
    /\ heap = [a \in 1..MaxAddr |-> <<>>]
    /\ nextAddr = 2
    /\ client = ClientFresh(1)
    /\ clientSnap = None
    /\ clientSnapContent = None
    /\ clientOp = "init"
    /\ cs = CsFresh
    /\ csOp = "init"
    /\ validation = None
    /\ csRet = None
    /\ oracleRun = 0

MailInputs == {<<MembershipMail, BookingMail>>, <<BookingMailIsIs>>, <<>>}

FlightNext ==
    \/ \E mails \in MailInputs : \E docs \in 0..1 : ClientPopulate(mails, docs)
    \/ ClientReset
    \/ ClientGetState
    \/ ClientLoadState
    \/ ClientCheckMedicalInfo
    \/ ClientGetMembershipInfo
    \/ ClientGetBookingInfo
    \/ \E c1 \in ConfirmationNumbers : \E c2 \in ConfirmationNumbers : CsPopulate(c1, c2)
    \/ CsReset
    \/ \E c \in ConfirmationNumbers : \E bags \in BagInputs : CsUpdateUserBooking(c, bags)
    \/ CsGetState

\* the customer-service app between population, booking updates and validation
ValidateNext ==
    \/ \E c1 \in ConfirmationNumbers : \E c2 \in ConfirmationNumbers : CsPopulate(c1, c2)
    \/ CsReset
    \/ \E c \in ConfirmationNumbers : \E bags \in BagInputs : CsUpdateUserBooking(c, bags)
    \/ \E appFound \in BOOLEAN : ScenarioValidate(appFound)
    \/ \E id \in MemberIds : \E c \in LookupNumbers : CsGetClientBaggagePolicyInfo(id, c)
    \/ RunEvent1
    \/ RunOracle1
    \/ RunOracle2

(***************************************************************************)
(* GmailApp (apps/gmail.py), the scenarios that build it, and the browser. *)
(* gw holds the app's attributes together with what its calls did to the   *)
(* simulation and to the browser.                                          *)
(***************************************************************************)
FileState == "gmail_state.json"

GmailAbsent ==
    [exists |-> FALSE, browserGiven |-> FALSE, owns |-> FALSE, loop |-> "none",
     app_state |-> "none", connected |-> FALSE, simOpen |-> FALSE,
     liveSims |-> 0, spawns |-> 0, closes |-> 0,
     running |-> FALSE,      \* the browser is started
     appStarts |-> 0,        \* browser.start() calls made by the app
     appStops |-> 0,         \* browser.stop() calls made by the app
     scenarioStarts |-> 0,   \* browser.start() calls made by the scenario
     scenarioStops |-> 0,    \* browser.stop() calls made by the scenario
     loops |-> {}]           \* event loops that ran a coroutine of the browser

\* variant, not the code: spawn starts the browser whether or not the app owns it
SpawnAlwaysStarts(w) ==
    [w EXCEPT !.liveSims = @ + 1, !.spawns = @ + 1, !.simOpen = TRUE,
              !.connected = TRUE,
              !.running = TRUE,
              !.appStarts = @ + 1,
              !.loops = @ \cup {w.loop}]

\* GmailApp.spawn: a new Simulation, the browser started if owned, then
\* navigate_to; every coroutine runs on self._loop
Spawn(w) ==
    [w EXCEPT !.liveSims = @ + 1, !.spawns = @ + 1, !.simOpen = TRUE,
              !.connected = TRUE,
              !.running = IF w.owns THEN TRUE ELSE @,
              !.appStarts = IF w.owns THEN @ + 1 ELSE @,
              !.loops = @ \cup {w.loop}]

\* variant, not the code: the ownership flag is computed the wrong way round
GmailConstructOwnsInverted(w, given, loop) ==
    Spawn([w EXCEPT !.exists = TRUE, !.browserGiven = given, !.owns = given,
                    !.loop = loop, !.app_state = FileState, !.connected = FALSE])

\* GmailApp.__init__(browser, loop=None): loop None means asyncio.get_event_loop()
GmailConstruct(w, given, loop) ==
    Spawn([w EXCEPT !.exists = TRUE, !.browserGiven = given, !.owns = ~given,
                    !.loop = loop, !.app_state = FileState, !.connected = FALSE])

\* GmailApp.close: aclose the simulation, stop the browser only if owned
Close(w) ==
    [w EXCEPT !.liveSims = IF w.simOpen THEN @ - 1 ELSE @,
              !.simOpen = FALSE, !.closes = @ + 1,
              !.running = IF w.owns THEN FALSE ELSE @,
              !.appStops = IF w.owns THEN @ + 1 ELSE @,
              !.loops = IF w.owns THEN @ \cup {w.loop} ELSE @]

\* GmailBrowserScenario.initialize: the scenario creates and starts the browser
\* on its own new event loop, then builds GmailApp(browser=self.browser)
GmailBrowserInitialize(w) ==
    GmailConstruct([w EXCEPT !.running = TRUE, !.scenarioStarts = @ + 1,
                             !.loops = @ \cup {"scenario_loop"}],
                   TRUE, "default_loop")

\* GmailTestScenario.init_and_populate_apps: GmailApp()
EaBenchInitialize(w) == GmailConstruct(w, FALSE, "default_loop")

ScenarioInitialize ==
    /\ gphase = "new"
    /\ gw' = IF gscenario = "gmail_browser" THEN GmailBrowserInitialize(gw)
             ELSE EaBenchInitialize(gw)
    /\ gphase' = "initialized"
    /\ gOp' = "init"
    /\ UNCHANGED <<gscenario, gmailSnap, agent, calls, page, toolRet, schedVars, flightVars>>

\* get_state_dict(self, ["app_state"])
GmailStateDict(w) == [app_state |-> w.app_state]

GmailGetState ==
    /\ gphase = "initialized"
    /\ gmailSnap' = Some(GmailStateDict(gw))
    /\ gOp' = "get_state"
    /\ UNCHANGED <<gscenario, gphase, gw, agent, calls, page, toolRet, schedVars, flightVars>>

\* a direct call of GmailApp.spawn()
GmailSpawn ==
    /\ gphase = "initialized"
    /\ gw.spawns < MaxCalls
    /\ gw' = Spawn(gw)
    /\ gOp' = "spawn"
    /\ UNCHANGED <<gscenario, gphase, gmailSnap, agent, calls, page, toolRet, schedVars, flightVars>>

\* setattr for every key of the dict, then spawn again
GmailLoadState ==
    /\ gphase = "initialized"
    /\ gmailSnap # None
    /\ gw.spawns < MaxCalls
    /\ gw' = Spawn([gw EXCEPT !.app_state = gmailSnap[1].app_state])
    /\ gOp' = "load_state"
    /\ UNCHANGED <<gscenario, gphase, gmailSnap, agent, calls, page, toolRet, schedVars, flightVars>>

GmailReset ==
    /\ gphase = "initialized"
    /\ gw.closes < MaxCalls
    /\ gw' = Close([gw EXCEPT !.app_state = "{}"])
    /\ gOp' = "reset"
    /\ UNCHANGED <<gscenario, gphase, gmailSnap, agent, calls, page, toolRet, schedVars, flightVars>>

GmailClose ==
    /\ gphase = "initialized"
    /\ gw.closes < MaxCalls
    /\ gw' = Close(gw)
    /\ gOp' = "close"
    /\ UNCHANGED <<gscenario, gphase, gmailSnap, agent, calls, page, toolRet, schedVars, flightVars>>

\* GmailApp.navigate: the navigation event is awaited on self._loop
GmailNavigate ==
    /\ gphase = "initialized"
    /\ gw' = [gw EXCEPT !.loops = @ \cup {gw.loop}]
    /\ gOp' = "navigate"
    /\ UNCHANGED <<gscenario, gphase, gmailSnap, agent, calls, page, toolRet, schedVars, flightVars>>

\* Environment shutdown: every App is closed; neither scenario class has any
\* code that stops a browser
EnvShutdown ==
    /\ gphase = "initialized"
    /\ gw' = Close(gw)
    /\ gphase' = "ended"
    /\ gOp' = "shutdown"
    /\ UNCHANGED <<gscenario, gmailSnap, agent, calls, page, toolRet, schedVars, flightVars>>

(***************************************************************************)
(* BrowserAgent (agents/custom_agents/browser_agent.py).                   *)
(***************************************************************************)
AgentAbsent ==
    [exists |-> FALSE, browserGiven |-> FALSE, browser |-> "None", owns |-> FALSE,
     loop |-> "None", pre_steps |-> <<>>, log |-> 0, steps |-> 0,
     errors |-> 0,           \* messages written by self.logger.error
     raised |-> FALSE]       \* an exception left the last step

\* list.insert(i, x): an index past the end appends
ListInsert(l, i, x) ==
    IF i >= Len(l) THEN Append(l, x)
    ELSE SubSeq(l, 1, i) \o <<x>> \o SubSeq(l, i + 1, Len(l))

\* BrowserAgent.__init__(llm_engine, browser, loop): the start_browser_lazy
\* step is commented out; capture_browser_state is always inserted
AgentConstruct(browser, loop) ==
    [exists |-> TRUE, browserGiven |-> browser # "None", browser |-> browser,
     owns |-> browser = "None", loop |-> loop,
     pre_steps |-> ListInsert(<<>>, IF browser = "None" THEN 1 ELSE 0,
                              "capture_browser_state"),
     log |-> 0, steps |-> 0, errors |-> 0, raised |-> FALSE]

AgentInit(browser, loop) ==
    /\ ~agent.exists
    /\ agent' = AgentConstruct(browser, loop)
    /\ UNCHANGED <<gscenario, gphase, gw, gmailSnap, gOp, calls, page, toolRet, schedVars, flightVars>>

\* agent.browser = external_browser (the scenario injects the shared browser)
AgentInjectBrowser ==
    /\ agent.exists
    /\ agent' = [agent EXCEPT !.browser = "external"]
    /\ UNCHANGED <<gscenario, gphase, gw, gmailSnap, gOp, calls, page, toolRet, schedVars, flightVars>>

\* agent._loop = loop (injected from the scenario before use)
AgentInjectLoop ==
    /\ agent.exists
    /\ agent' = [agent EXCEPT !.loop = "scenario_loop"]
    /\ UNCHANGED <<gscenario, gphase, gw, gmailSnap, gOp, calls, page, toolRet, schedVars, flightVars>>

\* how obtaining the browser state ends: it returns, it raises an Exception
\* (a browser error, RuntimeError of the loop), or it raises a BaseException
\* that is not an Exception (asyncio.CancelledError, KeyboardInterrupt)
CaptureOutcomes == {"ok", "Exception", "BaseException"}

\* variant, not the code: the body without its try / except
CaptureNoTryExcept(a, outcome) ==
    IF a.browser = "None" THEN a
    ELSE IF a.loop # "None" /\ outcome = "ok" THEN [a EXCEPT !.log = @ + 1]
    ELSE [a EXCEPT !.raised = TRUE]

\* capture_browser_state_step: try: if self.browser: read the state through
\* _fake_await = self._loop.run_until_complete (AttributeError when _loop is
\* None) and append one BrowserStateLog / except Exception: logger.error
CaptureBrowserState(a, outcome) ==
    IF a.browser = "None" THEN a
    ELSE IF a.loop = "None" THEN [a EXCEPT !.errors = @ + 1]
    ELSE IF outcome = "ok" THEN [a EXCEPT !.log = @ + 1]
    ELSE IF outcome = "Exception" THEN [a EXCEPT !.errors = @ + 1]
    ELSE [a EXCEPT !.raised = TRUE]

\* one agent step: the conditional pre-steps run, then the LLM is called; an
\* exception that leaves a pre-step ends the agent's run
AgentStep(outcome) ==
    /\ agent.exists
    /\ ~agent.raised
    /\ agent.steps < MaxSteps
    /\ agent' = LET a == IF \E i \in 1..Len(agent.pre_steps) :
                               agent.pre_steps[i] = "capture_browser_state"
                         THEN CaptureBrowserState(agent, outcome) ELSE agent
                IN  IF a.raised THEN a ELSE [a EXCEPT !.steps = @ + 1]
    /\ UNCHANGED <<gscenario, gphase, gw, gmailSnap, gOp, calls, page, toolRet, schedVars, flightVars>>

\* ---- tool calls from concurrent callers ----
NoCalls ==
    [pc |-> [t \in 1..NumCallers |-> "idle"],
     tool |-> [t \in 1..NumCallers |-> "none"],
     driver |-> 0]       \* the caller inside loop.run_until_complete (0: nobody)

ReadCalls == {"wait", "scroll", "find_text"}

\* what a tool call gives when run_until_complete raises RuntimeError("This
\* event loop is already running"): wait has no try/except, scroll and
\* find_text catch it and return their failure message
OnLoopBusy(tool) == IF tool = "wait" THEN "raised" ELSE "failed"

\* a caller enters a READ tool; the tool hands its coroutine to _run_async =
\* self._loop.run_until_complete(coro)
ToolCall(t, tool) ==
    /\ gw.exists /\ gw.simOpen
    /\ calls.pc[t] = "idle"
    /\ calls' = IF calls.driver # 0
                THEN [calls EXCEPT !.pc[t] = OnLoopBusy(tool), !.tool[t] = tool]
                ELSE [calls EXCEPT !.pc[t] = "in_loop", !.tool[t] = tool, !.driver = t]
    /\ UNCHANGED <<gscenario, gphase, gw, gmailSnap, gOp, agent, page, toolRet, schedVars, flightVars>>

\* the coroutine finishes, run_until_complete returns and the tool returns
ToolReturn(t) ==
    /\ calls.pc[t] = "in_loop"
    /\ calls' = [calls EXCEPT !.pc[t] = "completed", !.driver = 0]
    /\ UNCHANGED <<gscenario, gphase, gw, gmailSnap, gOp, agent, page, toolRet, schedVars, flightVars>>

\* the caller goes on to its next call
ToolNext(t) ==
    /\ calls.pc[t] \in {"completed", "raised", "failed"}
    /\ calls' = [calls EXCEPT !.pc[t] = "idle", !.tool[t] = "none"]
    /\ UNCHANGED <<gscenario, gphase, gw, gmailSnap, gOp, agent, page, toolRet, schedVars, flightVars>>

ToolsNext ==
    \/ \E t \in 1..NumCallers : \E tool \in ReadCalls : ToolCall(t, tool)
    \/ \E t \in 1..NumCallers : ToolReturn(t)
    \/ \E t \in 1..NumCallers : ToolNext(t)

\* ---- the tools of GmailApp and what they do to the browser ----
MaxTabs == 2
MaxScroll == 2
MaxSeconds == 32
WaitCap == 30

BlankPage == [url |-> "about:blank", back |-> None, tabs |-> 1, scroll |-> 0]

NoReturn == [tool |-> "none", outcome |-> "none", seconds |-> None, slept |-> None,
             reported |-> None]

Urls == {"about:blank", "https://mail.google.com"}
Engines == {"duckduckgo", "yahoo"}
SupportedEngines == {"duckduckgo", "google", "bing"}
SearchUrl(engine) == "https://duckduckgo.com/?q=query"

\* wait: actual_seconds = min(max(seconds - 1, 0), 30)
ActualSeconds(seconds) == SetMin({SetMax({seconds - 1, 0}), WaitCap})

\* what a tool call leaves behind: "ok" (the status string of a success),
\* "failure_string" (the status string of a failure), "raised" (an exception
\* left the tool)
Returned(tool, outcome) ==
    [tool |-> tool, outcome |-> outcome, seconds |-> None, slept |-> None,
     reported |-> None]

\* a tool whose body is try: ... except Exception: return "<failure>": the
\* page changes only when the browser call did not raise
Guarded(tool, raises, after) ==
    /\ gw.exists /\ gw.simOpen
    /\ page' = IF raises THEN page ELSE after
    /\ toolRet' = Returned(tool, IF raises THEN "failure_string" ELSE "ok")
    /\ UNCHANGED <<gscenario, gphase, gw, gmailSnap, gOp, agent, calls, schedVars, flightVars>>

\* a tool that makes no browser call and returns a fixed string
Placeholder(tool) ==
    /\ gw.exists /\ gw.simOpen
    /\ toolRet' = Returned(tool, "ok")
    /\ UNCHANGED <<gscenario, gphase, gw, gmailSnap, gOp, agent, calls, page, schedVars, flightVars>>

\* search: an unsupported engine is reported before any browser call; otherwise
\* a NavigateToUrlEvent to the engine's URL is dispatched in the current tab
ToolSearch(engine, raises) ==
    IF engine \notin SupportedEngines
    THEN /\ gw.exists /\ gw.simOpen
         /\ toolRet' = Returned("search", "failure_string")
         /\ UNCHANGED <<gscenario, gphase, gw, gmailSnap, gOp, agent, calls, page, schedVars, flightVars>>
    ELSE Guarded("search", raises,
                 [page EXCEPT !.url = SearchUrl(engine), !.back = Some(page.url)])

\* navigate: NavigateToUrlEvent(url, new_tab)
ToolNavigate(url, new_tab, raises) ==
    /\ new_tab => page.tabs < MaxTabs
    /\ Guarded("navigate", raises,
               IF new_tab THEN [page EXCEPT !.url = url, !.back = None, !.tabs = @ + 1,
                                            !.scroll = 0]
               ELSE [page EXCEPT !.url = url, !.back = Some(page.url), !.scroll = 0])

\* go_back: GoBackEvent
ToolGoBack(raises) ==
    Guarded("go_back", raises,
            IF page.back = None THEN page
            ELSE [page EXCEPT !.url = page.back[1], !.back = None, !.scroll = 0])

\* wait: no try/except around _run_async(asyncio.sleep(actual_seconds)); the
\* message is built from the argument
ToolWait(seconds, raises) ==
    /\ gw.exists /\ gw.simOpen
    /\ toolRet' = IF raises
                  THEN [Returned("wait", "raised") EXCEPT !.seconds = Some(seconds)]
                  ELSE [Returned("wait", "ok") EXCEPT
                           !.seconds = Some(seconds),
                           !.slept = Some(ActualSeconds(seconds)),
                           !.reported = Some(seconds)]
    /\ UNCHANGED <<gscenario, gphase, gw, gmailSnap, gOp, agent, calls, page, schedVars, flightVars>>

\* click: without index and without both coordinates the tool returns a
\* message at once; otherwise _click_by_index / _click_by_coordinate click,
\* and the element clicked may be a link
ToolClick(target, follows, raises) ==
    IF target = "nothing"
    THEN /\ gw.exists /\ gw.simOpen
         /\ toolRet' = Returned("click", "failure_string")
         /\ UNCHANGED <<gscenario, gphase, gw, gmailSnap, gOp, agent, calls, page, schedVars, flightVars>>
    ELSE Guarded("click", raises,
                 IF follows THEN [page EXCEPT !.url = "https://mail.google.com",
                                              !.back = Some(page.url), !.scroll = 0]
                 ELSE page)

\* input, send_keys, select_dropdown, evaluate: events on the document of the
\* current page
ToolOnDocument(tool, raises) == Guarded(tool, raises, page)

\* switch_tab: SwitchTabEvent; a failure is reported as "Attempted to switch"
ToolSwitchTab(raises) == Guarded("switch_tab", raises, page)

\* close_tab: CloseTabEvent
ToolCloseTab(raises) ==
    /\ page.tabs > 1
    /\ Guarded("close_tab", raises, [page EXCEPT !.tabs = @ - 1])

\* scroll: ScrollEvent(direction, amount, node)
ToolScroll(down, raises) ==
    Guarded("scroll", raises,
            [page EXCEPT !.scroll = IF down THEN SetMin({@ + 1, MaxScroll})
                                    ELSE SetMax({@ - 1, 0})])

\* find_text: ScrollToTextEvent(text); a text that is not found is reported by
\* the coroutine itself
ToolFindText(position, raises) ==
    Guarded("find_text", raises, [page EXCEPT !.scroll = position])

\* dropdown_options: GetDropdownOptionsEvent(node)
ToolDropdownOptions(raises) == Guarded("dropdown_options", raises, page)

ReadToolStep ==
    \/ \E engine \in Engines : \E raises \in BOOLEAN : ToolSearch(engine, raises)
    \/ \E seconds \in -1..MaxSeconds : \E raises \in BOOLEAN : ToolWait(seconds, raises)
    \/ \E down \in BOOLEAN : \E raises \in BOOLEAN : ToolScroll(down, raises)
    \/ \E position \in 0..MaxScroll : \E raises \in BOOLEAN : ToolFindText(position, raises)
    \/ \E raises \in BOOLEAN : ToolDropdownOptions(raises)
    \/ \E tool \in {"screenshot", "read_file"} : Placeholder(tool)

WriteToolStep ==
    \/ \E url \in Urls : \E new_tab \in BOOLEAN : \E raises \in BOOLEAN :
          ToolNavigate(url, new_tab, raises)
    \/ \E raises \in BOOLEAN : ToolGoBack(raises)
    \/ \E target \in {"nothing", "index", "coordinate"} : \E follows \in BOOLEAN :
          \E raises \in BOOLEAN : ToolClick(target, follows, raises)
    \/ \E tool \in {"input", "send_keys", "select_dropdown", "evaluate"} :
          \E raises \in BOOLEAN : ToolOnDocument(tool, raises)
    \/ \E raises \in BOOLEAN : ToolSwitchTab(raises)
    \/ \E raises \in BOOLEAN : ToolCloseTab(raises)
    \/ \E tool \in {"write_file", "replace_file"} : Placeholder(tool)

BrowseNext == ReadToolStep \/ WriteToolStep

\* the app as a scenario leaves it after initialize
ToolsInit ==
    /\ gscenario \in {"ea_bench", "gmail_browser"}
    /\ gphase = "initialized"
    /\ gw = IF gscenario = "gmail_browser" THEN GmailBrowserInitialize(GmailAbsent)
            ELSE EaBenchInitialize(GmailAbsent)
    /\ gmailSnap = None
    /\ gOp = "init"
    /\ agent = AgentAbsent
    /\ calls = NoCalls
    /\ page = BlankPage
    /\ toolRet = NoReturn

GmailInit ==
    /\ gscenario \in {"ea_bench", "gmail_browser"}
    /\ gphase = "new"
    /\ gw = GmailAbsent
    /\ gmailSnap = None
    /\ gOp = "none"
    /\ agent = AgentAbsent
    /\ calls = NoCalls
    /\ page = BlankPage
    /\ toolRet = NoReturn

GmailIdle == GmailInit /\ gscenario = "ea_bench"

GmailNext ==
    \/ ScenarioInitialize
    \/ GmailGetState
    \/ GmailSpawn
    \/ GmailLoadState
    \/ GmailReset
    \/ GmailClose
    \/ GmailNavigate
    \/ EnvShutdown
    \/ \E b \in {"None", "external"} : \E l \in {"None", "scenario_loop"} : AgentInit(b, l)
    \/ AgentInjectBrowser
    \/ AgentInjectLoop
    \/ \E outcome \in CaptureOutcomes : AgentStep(outcome)

Init == SchedInit /\ FlightInit /\ GmailIdle

\* the scheduler alone
SpecSched == Init /\ [][SchedNext]_vars

\* the scheduler with its loop kept running: the scheduler thread takes a step
\* whenever one is possible (handlers return, the clock moves, timers fire)
SpecSchedLive == Init /\ [][SchedNext]_vars /\ WF_vars(SchedNext)

InitBuild == BuildInit /\ FlightInit /\ GmailIdle

\* graph building, then the scheduler on the graph that was built
SpecBuild == InitBuild /\ [][BuildNext]_vars

\* the scheduler before a run, on one fixed graph
SchedIdle ==
    /\ graph = GmailBrowserGraph
    /\ mode = "virtual"
    /\ policy = "skip"
    /\ status = [e \in 1..graph.n |-> "Pending"]
    /\ result = [e \in 1..graph.n |-> "none"]
    /\ readyAt = [e \in 1..graph.n |-> -1]
    /\ doneAt = [e \in 1..graph.n |-> -1]
    /\ clock = StartTime
    /\ phase = "running"
    /\ build = NoCall
    /\ validated = 0

InitFlight == SchedIdle /\ FlightInit /\ GmailIdle

\* the flight apps alone
SpecFlight == InitFlight /\ [][FlightNext]_vars

InitGmail == SchedIdle /\ FlightInit /\ GmailInit

\* GmailApp, its scenario and BrowserAgent alone
SpecGmail == InitGmail /\ [][GmailNext]_vars

\* the flight scenario's validation of the customer-service app
SpecValidate == InitFlight /\ [][ValidateNext]_vars

InitTools == SchedIdle /\ FlightInit /\ ToolsInit

\* concurrent tool calls on an initialized GmailApp
SpecTools == InitTools /\ [][ToolsNext]_vars

\* the tools of an initialized GmailApp, called one at a time
SpecBrowse == InitTools /\ [][BrowseNext]_vars

(***************************************************************************)
(* Scheduler claims.                                                       *)
(***************************************************************************)
Started == {"Running", "Completed", "Failed"}

\* C1: an event is dispatched only after every event it depends on has been
\* resolved, and for every dependency edge A -> B with both Completed the
\* completion time of A is not later than that of B; in the flight scenario
\* event1 completes before oracle1, which completes before oracle2.
C1_DependencyOrder ==
    /\ \A e \in Ev : status[e] \in Started =>
            \A d \in Deps(e) : status[d] \in Terminal /\ doneAt[d] <= clock
    /\ \A b \in Ev : \A a \in Deps(b) :
            status[a] = "Completed" /\ status[b] = "Completed" => doneAt[a] <= doneAt[b]
    /\ graph.name = "flight" =>
            /\ status[1] = "Completed" /\ status[2] = "Completed" => doneAt[1] <= doneAt[2]
            /\ status[2] = "Completed" /\ status[3] = "Completed" => doneAt[2] <= doneAt[3]
            /\ status[2] \in Started => status[1] \in Terminal
            /\ status[3] \in Started => status[2] \in Terminal

\* C1 witness: the flight scenario with event1 and oracle1 both Completed
C1_Witness ==
    /\ graph.name = "flight"
    /\ status[1] = "Completed" /\ status[2] = "Completed"
    /\ doneAt[1] < doneAt[2]

\* the tools the code registers as WRITE on FlightCustomerServiceApp and GmailApp
WriteRegistered == FlightCustomerServiceTools \cup GmailWriteTools

\* C2: at most one write-classified event per App instance is Running: two
\* events on WRITE-registered tools of the same App never overlap.
C2_WriteMutualExclusion ==
    \A a \in Ev : \A b \in Ev \ {a} :
        (E(a).app = E(b).app /\ status[a] = "Running" /\ status[b] = "Running") =>
            /\ ~(OperationType(E(a).app, E(a).tool) = "WRITE"
                 /\ OperationType(E(b).app, E(b).tool) = "WRITE")
            /\ ~(E(a).tool \in WriteRegistered /\ E(b).tool \in WriteRegistered)

\* C2 witness: two independent write events on one App are both eligible; one
\* runs and the other is held Ready
C2_Witness ==
    \E a \in Ev : \E b \in Ev \ {a} :
        /\ E(a).app = E(b).app
        /\ E(a).tool = "update_user_booking" /\ E(b).tool = "update_user_booking"
        /\ a \notin Ancestors(b) /\ b \notin Ancestors(a)
        /\ status[a] = "Running" /\ status[b] = "Ready"

\* C9: an event becomes Ready exactly at max(completion times of its
\* dependencies) + delay (start + delay for a root), never earlier and not
\* later; in the graph event1 = depends_on(None, 2s), oracle1 =
\* depends_on(event1, 2s), oracle1 becomes Ready at event1's completion + 2s.
C9_ReadyExactlyAtDelay ==
    /\ \A e \in Ev : readyAt[e] # -1 => readyAt[e] = EligibleAt(e)
    /\ \A e \in Ev : status[e] \in {"Ready", "Running", "Completed"} =>
            readyAt[e] # -1 /\ clock >= EligibleAt(e)
    /\ \A e \in Ev : (status[e] = "Pending" /\ DepsOk(e) /\ phase = "running" /\ ~Exceeded)
            => clock <= EligibleAt(e)
    /\ graph.name = "ea_bench" =>
            /\ readyAt[1] # -1 => readyAt[1] = StartTime + 2
            /\ readyAt[2] # -1 => readyAt[2] = doneAt[1] + 2
            /\ status[1] = "Completed" /\ clock < doneAt[1] + 2 =>
                    status[2] \in {"Pending", "Skipped"}

\* C9 witness: event1 completed late (at 3s) and oracle1 is Ready at 5s
C9_Witness ==
    /\ graph.name = "ea_bench"
    /\ doneAt[1] = 3
    /\ status[2] = "Ready" /\ clock = 5

Raised(e) == result[e] = "CapabilityError"

\* C10 as stated: when a handler raises, its event ends Failed, every direct
\* and transitive successor ends Skipped (under propagate-skip), and every
\* event with no failed event among its transitive dependencies ends Completed.
C10_Original ==
    (phase = "done" /\ \E f \in Ev : Raised(f)) =>
        /\ \A e \in Ev : Raised(e) => status[e] = "Failed"
        /\ policy = "skip" =>
              \A e \in Ev : (\E f \in Ancestors(e) : Raised(f)) => status[e] = "Skipped"
        /\ \A e \in Ev :
              (status[e] # "Failed" /\ \A f \in Ancestors(e) : status[f] # "Failed")
                  => status[e] = "Completed"

\* C10 amended: as stated, except that an event with no failed event among its
\* transitive dependencies ends Completed or, when the duration budget was
\* exceeded before it started, Skipped with reason DeadlineExceeded.
C10_FailureIsolation ==
    (phase = "done" /\ \E f \in Ev : Raised(f)) =>
        /\ \A e \in Ev : Raised(e) => status[e] = "Failed"
        /\ policy = "skip" =>
              \A e \in Ev : (\E f \in Ancestors(e) : Raised(f)) => status[e] = "Skipped"
        /\ \A e \in Ev :
              (status[e] # "Failed" /\ \A f \in Ancestors(e) : status[f] # "Failed")
                  => \/ status[e] = "Completed"
                     \/ status[e] = "Skipped" /\ result[e] = "DeadlineExceeded"

\* C10 witness: a finished run in which a handler raised, its successor was
\* skipped and an unrelated event completed
C10_Witness ==
    /\ phase = "done" /\ policy = "skip"
    /\ \E f \in Ev : \E s \in Ev : \E u \in Ev :
          /\ Raised(f) /\ status[f] = "Failed"
          /\ f \in Ancestors(s) /\ status[s] = "Skipped" /\ result[s] = "DependencyFailed"
          /\ f \notin Ancestors(u) /\ u # f /\ status[u] = "Completed"

(***************************************************************************)
(* App claims.                                                             *)
(***************************************************************************)
\* C3: snapshot round trip for every App variant: after s = get_state(), any
\* mutation, load_state(s), a new get_state() equals s as it was taken
\* (FlightClientApp, FlightCustomerServiceApp, GmailApp).
C3_SnapshotRoundTrip ==
    /\ clientOp = "load_state" => Content(ClientStateDict) = clientSnapContent[1]
    /\ csOp # "get_state raised AttributeError"
    /\ gOp = "load_state" => GmailStateDict(gw) = gmailSnap[1]

\* C4: a snapshot is independent of the live App: nothing done to the app
\* after s = get_state(), or after load_state(s), changes the content of s.
C4_SnapshotIndependent ==
    clientSnap # None => Content(clientSnap[1]) = clientSnapContent[1]

\* C5: a GmailApp built with an externally supplied browser never calls
\* browser.start() or browser.stop(), whatever sequence of construction,
\* spawn, load_state, reset and close it goes through.
C5_BorrowerNeverStartsOrStops ==
    (gw.exists /\ gw.browserGiven) => (gw.appStarts = 0 /\ gw.appStops = 0)

\* C5 witness: a borrowing app that was respawned by load_state and closed twice
C5_Witness ==
    /\ gw.exists /\ gw.browserGiven
    /\ gw.spawns >= 2 /\ gw.closes >= 2
    /\ gw.running

\* C6: _owns_browser is True exactly when no browser was given to the
\* constructor, for GmailApp and BrowserAgent, and keeps that value after
\* spawn, load_state, reset, close and a browser assigned to the agent.
C6_OwnershipFixed ==
    /\ gw.exists => (gw.owns <=> ~gw.browserGiven)
    /\ agent.exists => (agent.owns <=> ~agent.browserGiven)

\* C6 witness: an owning app after load_state and reset, and an agent built
\* without a browser that later had one assigned
C6_Witness ==
    /\ gw.exists /\ gw.owns /\ gw.spawns >= 2 /\ gOp = "reset"
    /\ agent.exists /\ agent.owns /\ agent.browser = "external"

\* C7: every coroutine touching the browser (its start in the scenario,
\* GmailApp's spawn / navigate_to, every tool call) runs on one event loop.
C7_SingleEventLoop ==
    Cardinality(gw.loops) <= 1

\* C8: every browser its owner started is torn down by that owner: once the
\* run has ended no started browser is left running.
C8_StartedBrowserTornDown ==
    gphase = "ended" => ~gw.running

(***************************************************************************)
(* Scheduler claims, continued.                                            *)
(***************************************************************************)
AllTerminal == \A e \in Ev : status[e] \in Terminal

\* C11: every scheduler run terminates, and at termination every event is
\* Completed, Failed or Skipped; when the duration budget is exceeded every
\* event still Pending or Ready is marked Skipped with reason DeadlineExceeded.
C11_RunTerminates ==
    /\ <>(phase = "done")
    /\ [](phase = "done" => AllTerminal)
    /\ [][Exceeded /\ phase = "running" /\ phase' # "running" =>
            \A e \in Ev : status[e] \in {"Pending", "Ready"} =>
                status'[e] = "Skipped" /\ result'[e] = "DeadlineExceeded"]_vars
    /\ [](phase # "running" => \A e \in Ev : status[e] \notin {"Pending", "Ready"})

\* C11 witness: a run ended by the budget, with a Ready event and a Pending
\* event both skipped for DeadlineExceeded after another event completed
C11_Witness ==
    /\ phase = "done" /\ Exceeded
    /\ \E a \in Ev : \E b \in Ev :
          /\ result[a] = "DeadlineExceeded" /\ readyAt[a] # -1
          /\ result[b] = "DeadlineExceeded" /\ readyAt[b] = -1
    /\ \E c \in Ev : status[c] = "Completed"

IsAgentAction(e) == e \in Ev /\ E(e).kind = "AgentAction"

\* C12: an AgentAction event is never dispatched by the scheduler: once Ready
\* it waits for the agent; it ends Completed with the supplied result if the
\* agent answers within the timeout, Failed with kind TimeoutError once the
\* timeout elapses with no answer, and the run still reaches a terminal state.
C12_AgentActionWaits ==
    /\ [](\A e \in Ev : IsAgentAction(e) => status[e] # "Running")
    /\ [](\A e \in Ev : IsAgentAction(e) /\ status[e] = "Completed" =>
              /\ result[e] = "supplied"
              /\ readyAt[e] # -1 /\ doneAt[e] < readyAt[e] + AgentTimeout)
    /\ [](\A e \in Ev : IsAgentAction(e) /\ status[e] = "Failed" =>
              /\ result[e] = "TimeoutError"
              /\ readyAt[e] # -1 /\ doneAt[e] = readyAt[e] + AgentTimeout)
    /\ \A e \in 1..NumEvents :
          (IsAgentAction(e) /\ AgentWaiting(e) /\ ~Exceeded
              /\ clock >= readyAt[e] + AgentTimeout)
            ~> (IsAgentAction(e) /\ status[e] = "Failed" /\ result[e] = "TimeoutError")
    /\ <>(phase = "done" /\ AllTerminal)

\* C12 witness: a finished run whose AgentAction got no answer and failed with
\* TimeoutError exactly when its timeout elapsed
C12_Witness ==
    /\ phase = "done"
    /\ \E e \in Ev :
          /\ IsAgentAction(e)
          /\ status[e] = "Failed" /\ result[e] = "TimeoutError"
          /\ doneAt[e] = readyAt[e] + AgentTimeout

\* C13: a depends_on call whose edge would close a cycle (a self-dependency
\* included) fails with GraphCycleError at build time and adds nothing, every
\* other call adds its edge, and the scheduler never runs a cyclic graph.
C13_CycleRejectedAtBuild ==
    /\ Acyclic(graph)
    /\ build.error = "GraphCycleError" =>
          /\ phase = "building"
          /\ build.on \notin graph.ev[build.event].deps
          /\ ClosesCycle(graph, build.event, build.on)
    /\ (build.event # 0 /\ build.error = "none") =>
          build.on \in graph.ev[build.event].deps
    /\ phase # "building" => build = NoCall
    /\ (\E e \in Ev : status[e] # "Pending") => phase # "building"

\* C13 witness: the edge that would close the cycle 1 -> 2 -> 3 -> 1 was just
\* rejected
C13_Witness ==
    /\ phase = "building"
    /\ build.error = "GraphCycleError" /\ build.event # build.on
    /\ 1 \in graph.ev[2].deps /\ 2 \in graph.ev[3].deps
    /\ build.event = 1 /\ build.on = 3

\* position of a status in the lifecycle
Rank(st) ==
    CASE st = "Pending" -> 0
      [] st = "Ready" -> 1
      [] st = "Running" -> 2
      [] OTHER -> 3

\* C15: event status only moves forward through Pending -> Ready -> Running
\* -> {Completed | Failed}, or to Skipped: no event leaves a terminal state or
\* goes back, a result is set at most once and never changes, and no other
\* field of an event is changed by execution.
C15_StatusMonotone ==
    [][/\ graph' = graph
       /\ \A e \in Ev :
            /\ status[e] \in Terminal => status'[e] = status[e]
            /\ Rank(status'[e]) >= Rank(status[e])
            /\ status'[e] \in {"Completed", "Failed"} /\ status[e] # status'[e] =>
                    status[e] \in {"Running", "Ready"}
            /\ status'[e] = "Running" /\ status[e] # "Running" => status[e] = "Ready"
            /\ status'[e] = "Ready" /\ status[e] # "Ready" => status[e] = "Pending"
            /\ result[e] # "none" => result'[e] = result[e]
            /\ result'[e] # result[e] => status'[e] \in Terminal]_vars

\* C15 witness: a finished run in which events ended Completed, Failed and
\* Skipped, each with its result
C15_Witness ==
    /\ phase = "done"
    /\ \E a \in Ev : \E b \in Ev : \E c \in Ev :
          /\ status[a] = "Completed" /\ result[a] = "ok" /\ readyAt[a] # -1
          /\ status[b] = "Failed" /\ result[b] # "none"
          /\ status[c] = "Skipped" /\ result[c] # "none"

\* C16: validate(env) is invoked exactly once per run, and only after the
\* scheduler reached a terminal run state: whenever it has been invoked no
\* event is Pending, Ready or Running.
C16_ValidateOnceAfterRun ==
    /\ [](validated <= 1)
    /\ [](validated >= 1 =>
            /\ phase = "done"
            /\ \A e \in Ev : status[e] \notin {"Pending", "Ready", "Running"})
    /\ <>[](validated = 1)

\* C16 witness: validation has run on a run that the duration budget ended
\* while a handler was still executing
C16_Witness ==
    /\ validated = 1
    /\ \E e \in Ev : result[e] = "DeadlineExceeded"
    /\ \E e \in Ev : status[e] \in {"Completed", "Failed"} /\ doneAt[e] > StartTime + graph.duration

(***************************************************************************)
(* App claims, continued.                                                  *)
(***************************************************************************)
\* C14: two independent READ tool calls on the same GmailApp that are made
\* concurrently (scroll and wait, two find_text) both complete: neither
\* raises nor returns its failure message because of the other.
C14_ConcurrentReadsComplete ==
    \A t \in 1..NumCallers : calls.pc[t] \notin {"raised", "failed"}

HasStep(a, name) == \E i \in 1..Len(a.pre_steps) : a.pre_steps[i] = name

\* C17: a BrowserAgent built without a browser has both a start_browser_lazy
\* and a capture_browser_state pre-step; one built with an external browser
\* has capture_browser_state and no start_browser_lazy.
C17_ConditionalPreSteps ==
    agent.exists =>
        /\ HasStep(agent, "capture_browser_state")
        /\ HasStep(agent, "start_browser_lazy") <=> ~agent.browserGiven

\* C18: on every agent step, for an agent built with or without an external
\* browser, the capture pre-step runs and one BrowserStateLog is appended to
\* the agent log before the LLM is invoked.
C18_CaptureBeforeEachCall ==
    agent.exists => agent.log = agent.steps

\* C19: after GmailApp.reset() the app's state (app_state, the liveness of
\* its simulation and of its owned browser) equals the state it had right
\* after construction.
C19_ResetRestoresInitial ==
    gOp = "reset" =>
        /\ gw.app_state = FileState
        /\ gw.simOpen /\ gw.liveSims = 1
        /\ gw.owns => gw.running

\* the bookings that satisfy the scenario: confirmation number UA_confirm_123
\* with a MEDICAL_BAG entry in baggage_info
MedicalBagBooked ==
    \E i \in 1..Len(cs.client_booking_info) :
        /\ cs.client_booking_info[i].confirmation_number = "UA_confirm_123"
        /\ \E j \in 1..Len(heap[cs.client_booking_info[i].baggage_info]) :
              heap[cs.client_booking_info[i].baggage_info][j].bagage_type = "medical_bag"

\* C20: validate(env) returns success=True exactly when client_booking_info
\* holds a booking UA_confirm_123 whose baggage_info has a MEDICAL_BAG entry;
\* an exception raised while looking up the app is returned as success=False
\* with the exception attached and never propagates.
C20_ValidateMedicalBag ==
    /\ csOp = "validate" =>
          /\ validation[1].success = MedicalBagBooked
          /\ validation[1].exception = "none"
    /\ csOp = "validate, get_app raised" =>
          /\ ~validation[1].success
          /\ validation[1].exception # "none"
    /\ validation # None => ~validation[1].propagated

\* C20 witness: validation succeeded on a medical bag added to UA_confirm_123
\* while the other booking has none
C20_Witness ==
    /\ csOp = "validate"
    /\ validation[1].success
    /\ Len(cs.client_booking_info) = 2
    /\ cs.client_booking_info[2].confirmation_number = "UA_confirm_456"

\* one carry-on BaggageInfo per element of bags, in order
CarryOnBags(bags) ==
    [j \in 1..Len(bags) |-> [bagage_type |-> bags[j], baggage_checkin_type |-> "carry_on"]]

\* the list at address a belongs to a booking with confirmation number c
ListOfBooking(a, c) ==
    \E i \in 1..Len(cs.client_booking_info) :
        /\ cs.client_booking_info[i].baggage_info = a
        /\ cs.client_booking_info[i].confirmation_number = c

\* C21: update_user_booking(c, bags) appends one carry-on BaggageInfo per
\* element of bags, in order, to the baggage_info of every booking whose
\* confirmation_number is c, and changes nothing else; when no booking
\* matches c the whole app state is unchanged.
C21_UpdateUserBookingFrame ==
    [][\A c \in ConfirmationNumbers : \A bags \in BagInputs :
          CsUpdateUserBooking(c, bags) =>
            /\ cs' = cs
            /\ client' = client
            /\ \A a \in 1..MaxAddr :
                  heap'[a] = IF ListOfBooking(a, c) THEN heap[a] \o CarryOnBags(bags)
                             ELSE heap[a]
            /\ (\A i \in 1..Len(cs.client_booking_info) :
                    cs.client_booking_info[i].confirmation_number # c) => heap' = heap]_vars

\* C21 witness: two bags were added to booking UA_confirm_123 and the booking
\* UA_confirm_456 still has none
C21_Witness ==
    /\ csOp = "update_user_booking"
    /\ Len(cs.client_booking_info) = 2
    /\ cs.client_booking_info[1].confirmation_number = "UA_confirm_123"
    /\ cs.client_booking_info[2].confirmation_number = "UA_confirm_456"
    /\ heap[cs.client_booking_info[1].baggage_info] =
          CarryOnBags(<<"sports_equipment", "medical_bag">>)
    /\ heap[cs.client_booking_info[2].baggage_info] = <<>>

\* the tier or ticket type a stored value stands for, whether it was stored as
\* the Enum member or as its value
EnumValue(x) ==
    CASE x = "LoyaltyTier.NORMAL" -> "NORMAL"
      [] x = "TicketType.ECONOMY" -> "ECONOMY"
      [] OTHER -> x

\* C22: get_client_baggage_policy_info returns the first registered regular
\* policy whose tier is the client's tier (NORMAL when no membership is found)
\* and whose ticket type is the client's (ECONOMY when no booking is found),
\* and the default policy only when no registered policy has that tier and
\* ticket type, the policies registered by the flight scenario included.
C22_BaggagePolicyLookup ==
    csOp = "get_client_baggage_policy_info" =>
        LET r == csRet[1]
            ms == {i \in 1..Len(cs.client_membership_info) :
                      cs.client_membership_info[i].loyalty_member_id = r.member}
            bs == {i \in 1..Len(cs.client_booking_info) :
                      cs.client_booking_info[i].confirmation_number = r.confirmation}
            tier == IF ms = {} THEN "NORMAL"
                    ELSE EnumValue(cs.client_membership_info[SetMin(ms)].loyalty_tier)
            ticket == IF bs = {} THEN "ECONOMY"
                      ELSE EnumValue(cs.client_booking_info[SetMin(bs)].ticket_type)
            ps == {i \in 1..Len(cs.regular_bag_policies) :
                      /\ EnumValue(cs.regular_bag_policies[i].loyalty_tier) = tier
                      /\ EnumValue(cs.regular_bag_policies[i].ticket_type) = ticket}
        IN  IF ps = {} THEN r.policy = DefaultRegularPolicy
            ELSE r.policy = cs.regular_bag_policies[SetMin(ps)]

\* the form the docstring of get_booking_info_from_email documents:
\* "... your flight is UA-2209, and your confirmation number is UA_1234567890"
HasDocumentedForm(content) == content = BookingMail

DocumentedBooking ==
    Some([confirmation_number |-> "UA_confirm_123", flight_number |-> "UA-2209",
          passenger_name |-> ""])

\* C23: get_booking_info returns the stored booking when one is set; otherwise,
\* when one of the emails has the documented form "your flight is F, and your
\* confirmation number is C", it returns and stores a booking with flight
\* number F and confirmation number C; it returns None only when no email has
\* that form.
C23_BookingInfoFromEmail ==
    [][ClientGetBookingInfo =>
          IF client.bookings # None THEN client'.bookings = client.bookings
          ELSE (\E i \in 1..Len(client.emails) : HasDocumentedForm(client.emails[i]))
                  => client'.bookings = DocumentedBooking]_vars

\* C24: wait(seconds) sleeps min(max(seconds, 0), 30) seconds for every integer
\* seconds, and the returned message reports the duration actually waited.
C24_WaitDuration ==
    (toolRet.tool = "wait" /\ toolRet.outcome = "ok") =>
        /\ toolRet.slept = Some(SetMin({SetMax({toolRet.seconds[1], 0}), WaitCap}))
        /\ toolRet.reported = toolRet.slept

\* C27: every READ-registered GmailApp capability leaves the current URL, the
\* open tabs and the scroll position unchanged (so that two of them give the
\* same final state in either order); only WRITE-registered capabilities
\* change them.
C27_ReadToolsFrame == [][ReadToolStep => page' = page]_vars

\* C29: every GmailApp tool reports a failure as a returned status string: when
\* the browser call or _run_async raises, no exception leaves the tool.
C29_ToolsNeverRaise == toolRet.outcome # "raised"

\* C25: the event graph of the flight scenario fits in its duration budget:
\* none of event1, oracle1, oracle2 is Skipped with DeadlineExceeded, and in a
\* finished run where no handler failed all three are Completed.
C25_FlightFitsBudget ==
    graph.name = "flight" =>
        /\ \A e \in Ev : ~(status[e] = "Skipped" /\ result[e] = "DeadlineExceeded")
        /\ (phase = "done" /\ \A e \in Ev : status[e] # "Failed") =>
                \A e \in Ev : status[e] = "Completed"

\* the customer-service app holds what init_and_populate_apps put there: the
\* two bookings, each with an empty baggage list
AppsAsPopulated ==
    /\ Len(cs.client_booking_info) = 2
    /\ cs.client_booking_info[1].confirmation_number = "UA_confirm_123"
    /\ cs.client_booking_info[2].confirmation_number = "UA_confirm_456"
    /\ \A i \in 1..2 : heap[cs.client_booking_info[i].baggage_info] = <<>>

\* C26: after exactly the scenario's scheduled events (event1, oracle1 =
\* say_hi_to_customer_service, oracle2 = get_greeting_message_to_client) have
\* executed in dependency order on the apps as populated, validate(env)
\* returns success=True.
C26_OracleRunValidates ==
    (csOp = "validate" /\ oracleRun = 3 /\ AppsAsPopulated) => validation[1].success

\* C28: across construction, load_state, reset and close the app has at most
\* one live Simulation, a simulation is spawned only when the previous one has
\* been closed, an owned browser is started only when it is not started, and
\* neither sim.aclose() nor browser.stop() is called twice without a spawn or
\* start in between.
C28_ResourceCallsAlternate ==
    [][gOp' \in {"init", "load_state", "reset", "close"} =>
          /\ gw'.liveSims <= 1
          /\ gw'.spawns > gw.spawns => ~gw.simOpen
          /\ gw'.appStarts > gw.appStarts => ~gw.running
          /\ gw'.closes > gw.closes => gw.simOpen
          /\ gw'.appStops > gw.appStops => gw.running]_vars

\* C30 as stated: capture_browser_state_step never raises; without a browser
\* it does nothing, and when obtaining the browser state fails for any reason
\* the error is logged, nothing is appended and the step returns normally.
C30_Original ==
    [][\A outcome \in CaptureOutcomes : AgentStep(outcome) =>
          /\ ~agent'.raised
          /\ agent'.steps = agent.steps + 1
          /\ agent.browser = "None" =>
                 agent'.log = agent.log /\ agent'.errors = agent.errors
          /\ (agent.browser # "None" /\ (agent.loop = "None" \/ outcome # "ok")) =>
                 agent'.log = agent.log /\ agent'.errors = agent.errors + 1]_vars

\* C30: without a browser capture_browser_state_step does nothing; when
\* obtaining the browser state fails with an Exception (the loop not injected
\* included) the error is logged, no BrowserStateLog is appended, the agent
\* log is otherwise unchanged and the step returns normally; only an
\* exception that is not an Exception leaves the step, and then nothing is
\* appended either.
C30_CaptureFailureContained ==
    [][\A outcome \in CaptureOutcomes : AgentStep(outcome) =>
          /\ agent.browser = "None" =>
                 /\ agent'.log = agent.log /\ agent'.errors = agent.errors
                 /\ ~agent'.raised /\ agent'.steps = agent.steps + 1
          /\ (agent.browser # "None" /\ (agent.loop = "None" \/ outcome = "Exception")) =>
                 /\ agent'.log = agent.log /\ agent'.errors = agent.errors + 1
                 /\ ~agent'.raised /\ agent'.steps = agent.steps + 1
          /\ agent'.raised =>
                 /\ agent.browser # "None" /\ agent.loop # "None"
                 /\ outcome = "BaseException"
                 /\ agent'.log = agent.log]_vars

\* C30 witness: an agent with a browser and no loop has taken a step; the
\* error was logged, nothing was appended and the step returned
C30_Witness ==
    /\ agent.exists /\ agent.browser # "None" /\ agent.loop = "None"
    /\ agent.steps >= 1 /\ agent.errors = agent.steps
    /\ agent.log = 0 /\ ~agent.raised

====
